---------------------------- MODULE Spec2Model ----------------------------
(***************************************************************************)
(* jade-dev-assist task dashboard (src/bin/dashboard.py).                  *)
(*                                                                         *)
(* The model has three layers:                                             *)
(*   - IEEE-754 binary64 arithmetic as far as make_progress_bar needs it   *)
(*     (done / total, pct * width, int(), the '%' format), on 53-bit       *)
(*     mantissas kept as bit sequences;                                    *)
(*   - the loaders and build_display over JSON documents kept as records   *)
(*     whose DOMAIN is the set of keys that are present;                   *)
(*   - main: start-up, the Live session and the refresh loop, with the     *)
(*     files edited by other tools and the user interrupt as environment.  *)
(***************************************************************************)
EXTENDS Integers, Sequences, FiniteSets, TLC

VARIABLES
    registryFile,   \* content of ~/.jade/projects.json
    taskFiles,      \* content of <root>/<path>/.claude/tasks/tasks.json, by <<root, path>>
    pc,             \* position of main
    registry,       \* main's local `registry`
    idx,            \* build_display: index of the next project of the for loop
    acc,            \* build_display: all_stats, all_in_progress, all_completed, total_tasks, total_done
    liveHeld,       \* the Live (alternate screen) session is active
    shown,          \* the renderable the Live session displays
    console,        \* what main printed / did to the terminal, in order
    reads,          \* load_tasks calls of the running build_display: <<root, path, content>>
    startContent,   \* content load_registry found at start-up (line 181)
    cycleEdited,    \* a file was edited since the current refresh cycle began
    barArgs,        \* make_progress_bar: (done, total, width)
    bar             \* make_progress_bar: returned bar

vars == <<registryFile, taskFiles, pc, registry, idx, acc, liveHeld, shown,
          console, reads, startContent, cycleEdited, barArgs, bar>>

-----------------------------------------------------------------------------
(* Bounds of the model.                                                    *)

MaxTotal == 22
MaxWidth == 22
MaxProjects == 2
MaxTasks == 2
MaxRecentTasks == 5

-----------------------------------------------------------------------------
(* binary64 numbers x >= 0: [zero, mant, exp] with value                   *)
(* mant * 2^(exp - 52).  The 53-bit mantissa is kept as four limbs          *)
(* <<m0, m1, m2, m3>>: m0 holds the 5 leading bits (16..31, the leading    *)
(* bit is always 1), m1..m3 hold 16 bits each.                             *)

LimbBits == 16
TopBits == 5

RECURSIVE Pow2(_)
Pow2(n) == IF n = 0 THEN 1 ELSE 2 * Pow2(n - 1)

Base == Pow2(LimbBits)
TopOne == Pow2(TopBits - 1)

FZero == [zero |-> TRUE, mant |-> <<0, 0, 0, 0>>, exp |-> 0]

\* Number of binary digits of n >= 0.
RECURSIVE BitLen(_)
BitLen(n) == IF n = 0 THEN 0 ELSE 1 + BitLen(n \div 2)

\* Bit k of a mantissa, k = 1 the most significant, k = 53 the least.
MantBit(m, k) ==
    IF k <= TopBits
    THEN (m[1] \div Pow2(TopBits - k)) % 2
    ELSE LET j   == (k - TopBits - 1) \div LimbBits
             pos == (k - TopBits - 1) % LimbBits
         IN  (m[j + 2] \div Pow2(LimbBits - 1 - pos)) % 2

MantLen == TopBits + 3 * LimbBits

\* mant + 1; the carry out of the top limb renormalises to 1.0 * 2^(exp + 1).
MantInc(m, exp) ==
    LET c3 == IF m[4] + 1 = Base THEN 1 ELSE 0
        c2 == IF m[3] + c3 = Base THEN 1 ELSE 0
        c1 == IF m[2] + c2 = Base THEN 1 ELSE 0
        t  == m[1] + c1
    IN  IF t = 2 * TopOne
        THEN [zero |-> FALSE, mant |-> <<TopOne, 0, 0, 0>>, exp |-> exp + 1]
        ELSE [zero |-> FALSE,
              mant |-> <<t, (m[2] + c2) % Base, (m[3] + c3) % Base, (m[4] + 1) % Base>>,
              exp  |-> exp]

\* Round to nearest, ties to even: `up` says whether the discarded part
\* rounds the kept mantissa up.
FRound(kept, exp, up) ==
    IF up THEN MantInc(kept, exp) ELSE [zero |-> FALSE, mant |-> kept, exp |-> exp]

RECURSIVE ShiftUp(_, _)
ShiftUp(d, t) == IF d >= t THEN 0 ELSE 1 + ShiftUp(2 * d, t)

RECURSIVE ShiftDown(_, _)
ShiftDown(d, t) == IF 2 * t > d THEN 0 ELSE 1 + ShiftDown(d, 2 * t)

\* d / t for integers d >= 0, t > 0: Python's true division of two ints,
\* correctly rounded.  num / den is the quotient scaled into [1, 2).
FDiv(d, t) ==
    IF d = 0 THEN FZero
    ELSE LET e   == IF d >= t THEN ShiftDown(d, t) ELSE 0 - ShiftUp(d, t)
             num == IF e >= 0 THEN d ELSE d * Pow2(0 - e)
             den == IF e >= 0 THEN t * Pow2(e) ELSE t
             m0  == (TopOne * num) \div den
             r0  == (TopOne * num) % den
             m1  == (r0 * Base) \div den
             r1  == (r0 * Base) % den
             m2  == (r1 * Base) \div den
             r2  == (r1 * Base) % den
             m3  == (r2 * Base) \div den
             r3  == (r2 * Base) % den
             up  == \/ 2 * r3 > den
                    \/ 2 * r3 = den /\ m3 % 2 = 1
         IN  FRound(<<m0, m1, m2, m3>>, e, up)

\* x * w for a binary64 x and a small integer w >= 0 (float(w) is exact):
\* the exact product, shifted right by the s bits it has too many, rounded.
FMul(x, w) ==
    IF x.zero \/ w = 0 THEN FZero
    ELSE LET m    == x.mant
             p3   == m[4] * w
             p2   == m[3] * w + p3 \div Base
             p1   == m[2] * w + p2 \div Base
             T    == m[1] * w + p1 \div Base
             l1   == p1 % Base
             l2   == p2 % Base
             l3   == p3 % Base
             s    == BitLen(T) - TopBits
             lo   == Pow2(s)
             hi   == Pow2(LimbBits - s)
             n0   == T \div lo
             n1   == (T % lo) * hi + l1 \div lo
             n2   == (l1 % lo) * hi + l2 \div lo
             n3   == (l2 % lo) * hi + l3 \div lo
             gone == l3 % lo
             up   == /\ s > 0
                     /\ \/ 2 * gone > lo
                        \/ 2 * gone = lo /\ n3 % 2 = 1
         IN  FRound(<<n0, n1, n2, n3>>, x.exp + s, up)

\* int(x): truncation toward zero, for 0 <= x < 2^(TopBits + LimbBits).
FTrunc(x) ==
    IF x.zero \/ x.exp < 0 THEN 0
    ELSE IF x.exp < TopBits THEN x.mant[1] \div Pow2(TopBits - 1 - x.exp)
    ELSE x.mant[1] * Pow2(x.exp - TopBits + 1)
         + x.mant[2] \div Pow2(LimbBits + TopBits - 1 - x.exp)

\* format(x, ".0f"): the integer nearest to the exact value, ties to even.
FRoundInt(x) ==
    IF x.zero \/ x.exp < -1 THEN 0
    ELSE LET i     == FTrunc(x)
             guard == MantBit(x.mant, x.exp + 2) = 1
             rest  == \E k \in (x.exp + 3)..MantLen : MantBit(x.mant, k) = 1
         IN  IF guard /\ (rest \/ i % 2 = 1) THEN i + 1 ELSE i

-----------------------------------------------------------------------------
(* make_progress_bar (lines 57-63).  The returned markup is kept by its    *)
(* parts: the placeholder flag, the number of "-" cells of the placeholder *)
(* track, the numbers of full and empty cells, and the whole percent the   *)
(* "{pct:>4.0%}" format prints.                                            *)

DEFAULT_WIDTH == 20

Filled(done, total, width) == FTrunc(FMul(FDiv(done, total), width))

make_progress_bar(done, total, width) ==
    IF total = 0
    THEN [placeholder |-> TRUE, track |-> width, full |-> 0, empty |-> 0, percent |-> 0]
    ELSE LET pct    == FDiv(done, total)
             filled == Filled(done, total, width)
         IN  [placeholder |-> FALSE,
              track       |-> 0,
              full        |-> filled,
              empty       |-> IF width - filled > 0 THEN width - filled ELSE 0,
              percent     |-> FRoundInt(FMul(pct, 100))]

-----------------------------------------------------------------------------
(* JSON documents.  A JSON object is a record whose DOMAIN is the set of   *)
(* keys present, so that d[k] of a missing key is Python's KeyError and    *)
(* d.get(k, default) is Get.  A file holds one of                          *)
(*   absent       no such file                 (FileNotFoundError)         *)
(*   malformed    text that is not JSON        (json.JSONDecodeError)      *)
(*   undecodable  bytes that are not text      (UnicodeDecodeError)        *)
(*   json         a JSON value: an object (isdict, doc) or another value,  *)
(*                such as [] (isdict = FALSE).                             *)
(* Project records, task records and the milestone are objects wherever    *)
(* they occur; any of their keys may be missing.                           *)

PROJECTS_ROOT == "home/projects"
OTHER_ROOT == "srv/projects"
Roots == {PROJECTS_ROOT, OTHER_ROOT}

NoExc == "none"

FileAbsent == [kind |-> "absent"]
FileMalformed == [kind |-> "malformed"]
FileUndecodable == [kind |-> "undecodable"]
FileNonRecord == [kind |-> "json", isdict |-> FALSE]
FileDoc(doc) == [kind |-> "json", isdict |-> TRUE, doc |-> doc]

PyDict(doc) == [isdict |-> TRUE, doc |-> doc]
PyOther == [isdict |-> FALSE]

EmptyDict == [k \in {} |-> ""]

Get(d, k, default) == IF k \in DOMAIN d THEN d[k] ELSE default

Returned(v) == [raised |-> NoExc, value |-> v]
Raised(e) == [raised |-> e]

\* json.loads(path.read_text()) for a file that exists.
ReadJson(content) ==
    IF content.kind = "undecodable" THEN Raised("UnicodeDecodeError")
    ELSE IF content.isdict THEN Returned(PyDict(content.doc))
    ELSE Returned(PyOther)

EmptyRegistry ==
    PyDict([version |-> 1, projects_root |-> PROJECTS_ROOT, projects |-> << >>])

\* load_registry without the except clause.
load_registry_from_NoCatch(content) ==
    IF content.kind = "absent" THEN Raised("FileNotFoundError")
    ELSE IF content.kind = "malformed" THEN Raised("JSONDecodeError")
    ELSE ReadJson(content)

\* load_registry (lines 42-46), reading the registry file `content`.
load_registry_from(content) ==
    IF content.kind \in {"absent", "malformed"} THEN Returned(EmptyRegistry)
    ELSE ReadJson(content)

load_registry == load_registry_from(registryFile)

\* The file load_tasks opens for a project path (line 50): its root and the
\* project's directory under it.
TasksFile(project_path) == <<PROJECTS_ROOT, project_path>>

\* load_tasks catching FileNotFoundError only.
load_tasks_from_NoDecodeCatch(files, project_path) ==
    LET content == files[TasksFile(project_path)]
    IN  IF content.kind = "absent" THEN Returned(PyDict([tasks |-> << >>]))
        ELSE IF content.kind = "malformed" THEN Raised("JSONDecodeError")
        ELSE ReadJson(content)

\* load_tasks (lines 49-54) against the task files `files`.
load_tasks_from(files, project_path) ==
    LET content == files[TasksFile(project_path)]
    IN  IF content.kind \in {"absent", "malformed"}
        THEN Returned(PyDict([tasks |-> << >>]))
        ELSE ReadJson(content)

load_tasks(project_path) == load_tasks_from(taskFiles, project_path)

-----------------------------------------------------------------------------
(* build_display: the gathering loop (lines 66-93).                        *)

KnownStatuses == {"pending", "in_progress", "completed", "blocked", "failed"}

ZeroCounts == [k \in KnownStatuses |-> 0]

\* A tally that only knows the five statuses.
Bump_KnownOnly(counts, s) ==
    IF s \in DOMAIN counts THEN [counts EXCEPT ![s] = @ + 1] ELSE counts

\* counts[s] = counts.get(s, 0) + 1 (line 82): an unrecognised status gets
\* a key of its own.
Bump(counts, s) ==
    IF s \in DOMAIN counts
    THEN [counts EXCEPT ![s] = @ + 1]
    ELSE [k \in DOMAIN counts \cup {s} |-> IF k = s THEN 1 ELSE counts[k]]

\* t.get("title", t.get("id", "?")) (lines 84, 86).
TaskTitle(t) == Get(t, "title", Get(t, "id", "?"))

\* One iteration of `for t in tasks` (lines 80-86); st holds counts and the
\* two global lists, proj["name"] raises KeyError when the key is missing.
TaskStep(st, proj, t) ==
    LET s == Get(t, "status", "pending")
    IN  IF s \in {"in_progress", "completed"} /\ "name" \notin DOMAIN proj
        THEN [st EXCEPT !.raised = "KeyError", !.counts = Bump(st.counts, s)]
        ELSE [raised |-> NoExc,
              counts |-> Bump(st.counts, s),
              ip     |-> IF s = "in_progress"
                         THEN Append(st.ip, <<proj.name, TaskTitle(t)>>)
                         ELSE st.ip,
              done   |-> IF s = "completed"
                         THEN Append(st.done, <<proj.name, TaskTitle(t)>>)
                         ELSE st.done]

RECURSIVE TallyTasks(_, _, _, _)
TallyTasks(st, proj, tasks, i) ==
    IF i > Len(tasks) \/ st.raised # NoExc THEN st
    ELSE TallyTasks(TaskStep(st, proj, tasks[i]), proj, tasks, i + 1)

EmptyAcc ==
    [all_stats       |-> << >>,
     all_in_progress |-> << >>,
     all_completed   |-> << >>,
     total_tasks     |-> 0,
     total_done      |-> 0]

\* One iteration of `for proj in projects` (lines 76-93) on the accumulated
\* locals a, given what load_tasks returned or raised.
GatherProject(a, proj, loaded) ==
    IF loaded.raised # NoExc THEN Raised(loaded.raised)
    ELSE IF ~loaded.value.isdict THEN Raised("AttributeError")
    ELSE LET data  == loaded.value.doc
             tasks == Get(data, "tasks", << >>)
             st    == TallyTasks([raised |-> NoExc,
                                  counts |-> ZeroCounts,
                                  ip     |-> a.all_in_progress,
                                  done   |-> a.all_completed], proj, tasks, 1)
             n     == Len(tasks)
             done  == st.counts["completed"]
         IN  IF st.raised # NoExc THEN Raised(st.raised)
             ELSE Returned(
                 [all_stats       |-> Append(a.all_stats,
                                        [proj      |-> proj,
                                         counts    |-> st.counts,
                                         n         |-> n,
                                         done      |-> done,
                                         milestone |-> Get(Get(data, "milestone", EmptyDict),
                                                           "name", "")]),
                  all_in_progress |-> st.ip,
                  all_completed   |-> st.done,
                  total_tasks     |-> a.total_tasks + n,
                  total_done      |-> a.total_done + done])

\* The body of the loop for one project, load_tasks included (line 77);
\* proj["path"] raises KeyError when the key is missing.
GatherFrom(files, a, proj) ==
    IF "path" \notin DOMAIN proj THEN Raised("KeyError")
    ELSE GatherProject(a, proj, load_tasks_from(files, proj.path))

RECURSIVE GatherAll(_, _, _, _)
GatherAll(files, a, projects, i) ==
    IF i > Len(projects) THEN Returned(a)
    ELSE LET r == GatherFrom(files, a, projects[i])
         IN  IF r.raised # NoExc THEN r
             ELSE GatherAll(files, r.value, projects, i + 1)

-----------------------------------------------------------------------------
(* build_display: the renderable (lines 95-176), kept by its content: the  *)
(* project rows, the TOTAL row and the two panels.  The footer (refresh    *)
(* interval and wall-clock time) does not depend on the files and is left  *)
(* out.                                                                    *)

RECENT_LIMIT == 8

\* PROJECT_STATUS_ICONS.get(status, "?") (lines 33-39, 115).
Icon(status) ==
    CASE status = "buildable"        -> "OK"
      [] status = "near-buildable"   -> "~OK"
      [] status = "scaffolding-plus" -> "S+"
      [] status = "scaffolding"      -> "S"
      [] status = "blocked"          -> "BLK"
      [] OTHER                       -> "?"

\* str(c or "") (lines 120-124, 135-139): a zero count is an empty cell.
Cell(c) == IF c = 0 THEN "" ELSE ToString(c)

\* sum(c[k] for _, c, *_ in all_stats) (lines 135-139).
RECURSIVE SumCounts(_, _, _)
SumCounts(all_stats, k, i) ==
    IF i > Len(all_stats) THEN 0
    ELSE all_stats[i].counts[k] + SumCounts(all_stats, k, i + 1)

\* all_completed[:n]: the first entries instead of the last.
LastN_First(list, n) == IF Len(list) <= n THEN list ELSE SubSeq(list, 1, n)

\* all_completed[-8:] (line 154).
LastN(list, n) ==
    IF Len(list) <= n THEN list ELSE SubSeq(list, Len(list) - n + 1, Len(list))

\* One project row (lines 114-127).
ProjectRow(st) ==
    [name      |-> st.proj.name,
     icon      |-> Icon(Get(st.proj, "status", "")),
     pending   |-> Cell(st.counts["pending"]),
     running   |-> Cell(st.counts["in_progress"]),
     completed |-> Cell(st.counts["completed"]),
     blocked   |-> Cell(st.counts["blocked"]),
     failed    |-> Cell(st.counts["failed"]),
     bar       |-> make_progress_bar(st.done, st.n, DEFAULT_WIDTH),
     milestone |-> st.milestone]

\* The TOTAL row (lines 129-142).
TotalRow(a) ==
    [name      |-> "TOTAL",
     icon      |-> "",
     pending   |-> Cell(SumCounts(a.all_stats, "pending", 1)),
     running   |-> Cell(SumCounts(a.all_stats, "in_progress", 1)),
     completed |-> Cell(SumCounts(a.all_stats, "completed", 1)),
     blocked   |-> Cell(SumCounts(a.all_stats, "blocked", 1)),
     failed    |-> Cell(SumCounts(a.all_stats, "failed", 1)),
     bar       |-> make_progress_bar(a.total_done, a.total_tasks, DEFAULT_WIDTH),
     milestone |-> ToString(a.total_done) \o "/" \o ToString(a.total_tasks) \o " tasks"]

\* A panel (lines 144-161): its lines, or the fixed placeholder when empty.
Panel(lines) == [placeholder |-> lines = << >>, lines |-> lines]

\* Lines 95-176 on the gathered locals; proj["name"] (line 118) raises
\* KeyError for the first project record without a name.
Render(a) ==
    IF \E i \in 1..Len(a.all_stats) : "name" \notin DOMAIN a.all_stats[i].proj
    THEN Raised("KeyError")
    ELSE Returned(
        [rows     |-> [i \in 1..Len(a.all_stats) |-> ProjectRow(a.all_stats[i])],
         total    |-> TotalRow(a),
         ip_panel |-> Panel(a.all_in_progress),
         rc_panel |-> Panel(LastN(a.all_completed, RECENT_LIMIT))])

\* build_display(registry) as one call, reading the task files `files`.
BuildDisplay(files, reg) ==
    IF ~reg.isdict THEN Raised("AttributeError")
    ELSE LET g == GatherAll(files, EmptyAcc, Get(reg.doc, "projects", << >>), 1)
         IN  IF g.raised # NoExc THEN g ELSE Render(g.value)

build_display(reg) == BuildDisplay(taskFiles, reg)

-----------------------------------------------------------------------------
(* main (lines 179-196).  pc is the position of main:                      *)
(*   start    before load_registry (line 181)                              *)
(*   check    at the "no projects" test (line 183)                         *)
(*   gather   in build_display's loop over the projects (lines 76-93),     *)
(*            idx the next project; the first build runs before the Live   *)
(*            session is entered (line 190), later ones inside it          *)
(*   sleep    in time.sleep (line 192)                                     *)
(*   reload   at load_registry of the loop (line 193)                      *)
(*   unwind_interrupt, unwind_error                                        *)
(*            an exception leaves the `with Live` block (Live.__exit__)    *)
(*   except   in the KeyboardInterrupt handler (lines 195-196)             *)
(*   exited   main returned;  crashed  an exception other than             *)
(*            KeyboardInterrupt left main;  killed  KeyboardInterrupt      *)
(*            left main outside the try block                              *)

Terminated == {"exited", "crashed", "killed"}

\* startContent before load_registry has run.
NotRead == [kind |-> "unread"]

NoView == [none |-> TRUE]
NoBar == [none |-> TRUE]

Projects(reg) == Get(reg.doc, "projects", << >>)

\* Where an exception other than KeyboardInterrupt raised by the code of
\* the try block (lines 189-194) leads: through Live.__exit__ when the
\* session is entered, out of main otherwise.
ErrorTarget(held) == IF held THEN "unwind_error" ELSE "crashed"

\* A Live session started without the `with` statement: nothing exits it.
InterruptTarget_Unscoped(held) == "except"

\* Where a KeyboardInterrupt raised in the try block leads: the `with`
\* statement exits the Live session first, then the handler runs.
InterruptTarget(held) == IF held THEN "unwind_interrupt" ELSE "except"

\* The loop keeping the registry it loaded before.
ReloadRegistry_Cached(old) == Returned(old)

\* registry = load_registry() of the loop (line 193); `old` is the value the
\* local holds before the assignment.
ReloadRegistry(old) == load_registry

\* Lines 180-181.
Startup ==
    /\ pc = "start"
    /\ startContent' = registryFile
    /\ cycleEdited' = FALSE
    /\ LET r == load_registry
       IN  IF r.raised # NoExc
           THEN pc' = "crashed" /\ UNCHANGED registry
           ELSE pc' = "check" /\ registry' = r.value
    /\ UNCHANGED <<registryFile, taskFiles, idx, acc, liveHeld, shown, console, reads,
                   barArgs, bar>>

\* Lines 183-187, and the entry of the first build_display (lines 67-74).
CheckProjects ==
    /\ pc = "check"
    /\ IF ~registry.isdict
       THEN pc' = "crashed" /\ UNCHANGED <<console, idx, acc, reads>>
       ELSE IF Len(Projects(registry)) = 0
       THEN /\ console' = Append(console, "no_projects")
            /\ pc' = "exited"
            /\ UNCHANGED <<idx, acc, reads>>
       ELSE /\ console' = Append(console, "starting")
            /\ pc' = "gather"
            /\ idx' = 1
            /\ acc' = EmptyAcc
            /\ reads' = << >>
    /\ UNCHANGED <<registryFile, taskFiles, registry, liveHeld, shown, startContent,
                   cycleEdited, barArgs, bar>>

\* One iteration of build_display's loop over the projects (lines 76-93).
Gather ==
    /\ pc = "gather"
    /\ idx <= Len(Projects(registry))
    /\ LET proj == Projects(registry)[idx]
           r    == IF "path" \notin DOMAIN proj THEN Raised("KeyError")
                   ELSE GatherProject(acc, proj, load_tasks(proj.path))
       IN  /\ reads' = IF "path" \in DOMAIN proj
                       THEN Append(reads, [file    |-> TasksFile(proj.path),
                                           content |-> taskFiles[TasksFile(proj.path)]])
                       ELSE reads
           /\ IF r.raised # NoExc
              THEN pc' = ErrorTarget(liveHeld) /\ UNCHANGED <<idx, acc>>
              ELSE pc' = "gather" /\ idx' = idx + 1 /\ acc' = r.value
    /\ UNCHANGED <<registryFile, taskFiles, registry, liveHeld, shown, console,
                   startContent, cycleEdited, barArgs, bar>>

\* The first build_display returns and the Live session is entered with it
\* (lines 95-176, line 190).
EnterLive ==
    /\ pc = "gather"
    /\ idx > Len(Projects(registry))
    /\ ~liveHeld
    /\ LET r == Render(acc)
       IN  IF r.raised # NoExc
           THEN pc' = ErrorTarget(liveHeld) /\ UNCHANGED <<liveHeld, shown, console>>
           ELSE /\ pc' = "sleep"
                /\ liveHeld' = TRUE
                /\ shown' = r.value
                /\ console' = Append(console, "live_start")
    /\ UNCHANGED <<registryFile, taskFiles, registry, idx, acc, reads, startContent,
                   cycleEdited, barArgs, bar>>

\* build_display of the loop returns and live.update shows it (lines 95-176,
\* line 194).
UpdateLive ==
    /\ pc = "gather"
    /\ idx > Len(Projects(registry))
    /\ liveHeld
    /\ LET r == Render(acc)
       IN  IF r.raised # NoExc
           THEN pc' = ErrorTarget(liveHeld) /\ UNCHANGED shown
           ELSE pc' = "sleep" /\ shown' = r.value
    /\ UNCHANGED <<registryFile, taskFiles, registry, idx, acc, liveHeld, console, reads,
                   startContent, cycleEdited, barArgs, bar>>

\* time.sleep(REFRESH_INTERVAL) returns (line 192).
Sleep ==
    /\ pc = "sleep"
    /\ pc' = "reload"
    /\ UNCHANGED <<registryFile, taskFiles, registry, idx, acc, liveHeld, shown, console,
                   reads, startContent, cycleEdited, barArgs, bar>>

\* Line 193, and the entry of build_display (lines 67-74).
Reload ==
    /\ pc = "reload"
    /\ cycleEdited' = FALSE
    /\ LET r == ReloadRegistry(registry)
       IN  IF r.raised # NoExc
           THEN pc' = ErrorTarget(liveHeld) /\ UNCHANGED <<registry, idx, acc, reads>>
           ELSE /\ registry' = r.value
                /\ IF ~r.value.isdict
                   THEN pc' = ErrorTarget(liveHeld) /\ UNCHANGED <<idx, acc, reads>>
                   ELSE pc' = "gather" /\ idx' = 1 /\ acc' = EmptyAcc /\ reads' = << >>
    /\ UNCHANGED <<registryFile, taskFiles, liveHeld, shown, console, startContent,
                   barArgs, bar>>

\* Live.__exit__: the alternate screen is left.
LiveExit ==
    /\ pc \in {"unwind_interrupt", "unwind_error"}
    /\ liveHeld' = FALSE
    /\ console' = Append(console, "live_stop")
    /\ pc' = IF pc = "unwind_interrupt" THEN "except" ELSE "crashed"
    /\ UNCHANGED <<registryFile, taskFiles, registry, idx, acc, shown, reads,
                   startContent, cycleEdited, barArgs, bar>>

\* Lines 195-196.
PrintStopped ==
    /\ pc = "except"
    /\ console' = Append(console, "stopped")
    /\ pc' = "exited"
    /\ UNCHANGED <<registryFile, taskFiles, registry, idx, acc, liveHeld, shown, reads,
                   startContent, cycleEdited, barArgs, bar>>

\* The user's Ctrl+C: KeyboardInterrupt is raised wherever main is.
Interrupt ==
    /\ pc \in {"start", "check", "gather", "sleep", "reload"}
    /\ pc' = IF pc \in {"start", "check"} THEN "killed" ELSE InterruptTarget(liveHeld)
    /\ UNCHANGED <<registryFile, taskFiles, registry, idx, acc, liveHeld, shown, console,
                   reads, startContent, cycleEdited, barArgs, bar>>

\* make_progress_bar called on its own.
BarCall ==
    /\ pc = "bar_call"
    /\ bar' = make_progress_bar(barArgs[1], barArgs[2], barArgs[3])
    /\ pc' = "bar_done"
    /\ UNCHANGED <<registryFile, taskFiles, registry, idx, acc, liveHeld, shown, console,
                   reads, startContent, cycleEdited, barArgs>>

Program ==
    \/ Startup
    \/ CheckProjects
    \/ Gather
    \/ EnterLive
    \/ UpdateLive
    \/ Sleep
    \/ Reload
    \/ LiveExit
    \/ PrintStopped

-----------------------------------------------------------------------------
(* The files the specifications start from and other tools write.          *)

ProjAlpha == [name |-> "alpha", path |-> "alpha", status |-> "buildable"]
ProjBeta == [name |-> "beta", path |-> "beta"]
ProjNoPath == [name |-> "gamma"]
ProjNoName == [path |-> "alpha"]

Paths == {"alpha", "beta"}

TaskIds == <<"t1", "t2", "t3", "t4", "t5", "t6", "t7", "t8", "t9">>
TaskTitles == <<"one", "two", "three", "four", "five", "six", "seven", "eight", "nine">>

\* The task record of kind k at position j of a task list; ids are unique
\* within a list.
TaskOf(k, j) ==
    CASE k = "done"         -> [id |-> TaskIds[j], title |-> TaskTitles[j], status |-> "completed"]
      [] k = "done_untitled" -> [id |-> TaskIds[j], status |-> "completed"]
      [] k = "running"      -> [id |-> TaskIds[j], title |-> TaskTitles[j], status |-> "in_progress"]
      [] k = "review"       -> [id |-> TaskIds[j], status |-> "review"]
      [] k = "bare"         -> [title |-> TaskTitles[j]]
      [] k = "anonymous"    -> [status |-> "completed"]

TaskLists(kinds, maxLen) ==
    UNION {{[j \in 1..n |-> TaskOf(ks[j], j)] : ks \in [1..n -> kinds]} : n \in 0..maxLen}

SeqsUpTo(S, maxLen) == UNION {[1..n -> S] : n \in 0..maxLen}

RegistryDoc(root, projects) ==
    FileDoc([version |-> 1, projects_root |-> root, projects |-> projects])

\* The task files: those under PROJECTS_ROOT as given, one fixed file per
\* project under the other root.
OtherRootDoc == FileDoc([tasks |-> <<TaskOf("done", 1)>>])

FilesOf(home) ==
    [f \in Roots \X Paths |-> IF f[1] = PROJECTS_ROOT THEN home[f[2]] ELSE OtherRootDoc]

InitProgram ==
    /\ pc = "start"
    /\ registry = PyOther
    /\ idx = 1
    /\ acc = EmptyAcc
    /\ liveHeld = FALSE
    /\ shown = NoView
    /\ console = << >>
    /\ reads = << >>
    /\ startContent = NotRead
    /\ cycleEdited = FALSE
    /\ barArgs = <<0, 0, 0>>
    /\ bar = NoBar

-----------------------------------------------------------------------------
(* Spec: main with the files edited by other tools at any moment and the   *)
(* user interrupt.                                                         *)

LiveRegistryContents ==
    {FileAbsent, FileMalformed, FileNonRecord,
     RegistryDoc(PROJECTS_ROOT, <<ProjAlpha>>),
     RegistryDoc(OTHER_ROOT, <<ProjBeta, ProjAlpha>>),
     RegistryDoc(PROJECTS_ROOT, <<ProjNoPath>>),
     RegistryDoc(PROJECTS_ROOT, <<ProjNoName>>)}

LiveTaskContents ==
    {FileAbsent, FileMalformed, FileUndecodable, FileNonRecord,
     FileDoc([tasks |-> <<TaskOf("done", 1), TaskOf("running", 2), TaskOf("bare", 3)>>,
              milestone |-> [name |-> "v1"]])}

Init ==
    /\ registryFile \in LiveRegistryContents
    /\ \E home \in [Paths -> LiveTaskContents] : taskFiles = FilesOf(home)
    /\ InitProgram

\* Another tool rewrites, creates or removes the registry file.
EditRegistry ==
    /\ pc \notin Terminated
    /\ \E c \in LiveRegistryContents : c # registryFile /\ registryFile' = c
    /\ cycleEdited' = TRUE
    /\ UNCHANGED <<taskFiles, pc, registry, idx, acc, liveHeld, shown, console, reads,
                   startContent, barArgs, bar>>

\* Another tool rewrites, creates or removes a project's task file.
EditTasks ==
    /\ pc \notin Terminated
    /\ \E path \in Paths, c \in LiveTaskContents :
          /\ c # taskFiles[<<PROJECTS_ROOT, path>>]
          /\ taskFiles' = [taskFiles EXCEPT ![<<PROJECTS_ROOT, path>>] = c]
    /\ cycleEdited' = TRUE
    /\ UNCHANGED <<registryFile, pc, registry, idx, acc, liveHeld, shown, console, reads,
                   startContent, barArgs, bar>>

Next == Program \/ Interrupt \/ EditRegistry \/ EditTasks

Spec == Init /\ [][Next]_vars

-----------------------------------------------------------------------------
(* SpecAgg: main on files nobody edits, for every registry of up to        *)
(* MaxProjects projects and every task list of up to MaxTasks tasks;       *)
(* a task file is missing, unparsable or a well-formed document.           *)

AggKinds == {"done", "review", "bare"}

AggTaskContents ==
    {FileAbsent, FileMalformed, FileDoc([milestone |-> [name |-> "v1"]])}
        \cup {FileDoc([tasks |-> tl]) : tl \in TaskLists(AggKinds, MaxTasks)}

InitAgg ==
    /\ \E root \in Roots, ps \in SeqsUpTo({ProjAlpha, ProjBeta}, MaxProjects) :
          registryFile = RegistryDoc(root, ps)
    /\ \E home \in [Paths -> AggTaskContents] : taskFiles = FilesOf(home)
    /\ InitProgram

NextAgg ==
    \/ Startup
    \/ CheckProjects
    \/ Gather
    \/ EnterLive
    \/ UpdateLive
    \/ Sleep
    \/ Reload

SpecAgg == InitAgg /\ [][NextAgg]_vars

-----------------------------------------------------------------------------
(* SpecRecent: main on files nobody edits, two projects in either order,   *)
(* every list of up to MaxRecentTasks tasks that are completed or          *)
(* running: enough completed tasks to overflow the panel.                  *)

RecentKinds == {"done_untitled", "running"}

RecentTaskContents == {FileDoc([tasks |-> tl]) : tl \in TaskLists(RecentKinds, MaxRecentTasks)}

InitRecent ==
    /\ registryFile \in {RegistryDoc(PROJECTS_ROOT, <<ProjAlpha, ProjBeta>>),
                         RegistryDoc(PROJECTS_ROOT, <<ProjBeta, ProjAlpha>>)}
    /\ \E home \in [Paths -> RecentTaskContents] : taskFiles = FilesOf(home)
    /\ InitProgram

SpecRecent == InitRecent /\ [][NextAgg]_vars

-----------------------------------------------------------------------------
(* SpecBar: make_progress_bar on every 0 <= done <= total <= MaxTotal and  *)
(* every width up to MaxWidth.                                             *)

InitBar ==
    /\ registryFile = FileAbsent
    /\ taskFiles = FilesOf([p \in Paths |-> FileAbsent])
    /\ pc = "bar_call"
    /\ registry = PyOther
    /\ idx = 1
    /\ acc = EmptyAcc
    /\ liveHeld = FALSE
    /\ shown = NoView
    /\ console = << >>
    /\ reads = << >>
    /\ startContent = NotRead
    /\ cycleEdited = FALSE
    /\ \E total \in 0..MaxTotal, width \in 0..MaxWidth :
          \E done \in 0..total : barArgs = <<done, total, width>>
    /\ bar = NoBar

SpecBar == InitBar /\ [][BarCall]_vars

-----------------------------------------------------------------------------
(* What the claims are stated with: the task list a file holds, counted    *)
(* and listed directly from the file.                                      *)

\* The task list of a task file (none when the file is missing or is not a
\* document with tasks).
TasksIn(content) ==
    IF content.kind = "json" /\ content.isdict /\ "tasks" \in DOMAIN content.doc
    THEN content.doc.tasks
    ELSE << >>

StatusOf(t) == IF "status" \in DOMAIN t THEN t.status ELSE "pending"

DisplayTitle(t) ==
    IF "title" \in DOMAIN t THEN t.title
    ELSE IF "id" \in DOMAIN t THEN t.id ELSE "?"

HowMany(tasks, status) == Cardinality({j \in 1..Len(tasks) : StatusOf(tasks[j]) = status})

RECURSIVE SumValues(_, _)
SumValues(f, keys) ==
    IF keys = {} THEN 0
    ELSE LET k == CHOOSE x \in keys : TRUE
         IN  f[k] + SumValues(f, keys \ {k})

\* The number a table cell shows (an empty cell shows none: 0).
CellNumber(cell, max) == IF cell = "" THEN 0 ELSE CHOOSE n \in 1..max : ToString(n) = cell

FiveCells(row, max) ==
    [pending     |-> CellNumber(row.pending, max),
     in_progress |-> CellNumber(row.running, max),
     completed   |-> CellNumber(row.completed, max),
     blocked     |-> CellNumber(row.blocked, max),
     failed      |-> CellNumber(row.failed, max)]

RECURSIVE SumRows(_, _, _, _)
SumRows(rows, k, max, i) ==
    IF i > Len(rows) THEN 0
    ELSE FiveCells(rows[i], max)[k] + SumRows(rows, k, max, i + 1)

RECURSIVE SumN(_, _)
SumN(all_stats, i) ==
    IF i > Len(all_stats) THEN 0 ELSE all_stats[i].n + SumN(all_stats, i + 1)

IsCompleted(t) == StatusOf(t) = "completed"

\* The (project name, title) pairs of the completed tasks in encounter
\* order: registry order, then task order within a project.
RECURSIVE CompletedFrom(_, _, _)
CompletedFrom(files, projects, i) ==
    IF i > Len(projects) THEN << >>
    ELSE LET sel == SelectSeq(TasksIn(files[<<PROJECTS_ROOT, projects[i].path>>]), IsCompleted)
         IN  [j \in 1..Len(sel) |-> <<projects[i].name, DisplayTitle(sel[j])>>]
                 \o CompletedFrom(files, projects, i + 1)

\* A snapshot has been published and its build's locals are still there.
Published == pc = "sleep"

-----------------------------------------------------------------------------
(* C1: for every project aggregated by build_display, the counts of its    *)
(* status tally (the five known statuses and every other status string     *)
(* that occurred, a missing status counting as pending) add up to n, the   *)
(* length of the task list read for it.                                    *)
C1_CountsSumToN ==
    /\ Len(acc.all_stats) = Len(reads)
    /\ \A i \in 1..Len(acc.all_stats) :
          LET st == acc.all_stats[i]
          IN  /\ st.n = Len(TasksIn(reads[i].content))
              /\ SumValues(st.counts, DOMAIN st.counts) = st.n

C1_Witness ==
    \E i \in 1..Len(acc.all_stats) :
        LET st == acc.all_stats[i]
        IN  /\ st.n = 2
            /\ "review" \in DOMAIN st.counts
            /\ st.counts["pending"] = 1
            /\ \E j \in 1..2 : "status" \notin DOMAIN TasksIn(reads[i].content)[j]

(* C2: in every published snapshot total_tasks is the sum of the projects' *)
(* task counts, total_done the sum of their completed counts, each of the  *)
(* five counts of the TOTAL row is the sum of that column over the project *)
(* rows, and the five counts of the TOTAL row add up to total_tasks.       *)
C2_TotalRowAddsUp ==
    Published =>
        LET max   == acc.total_tasks
            total == FiveCells(shown.total, max)
        IN  /\ acc.total_tasks = SumN(acc.all_stats, 1)
            /\ acc.total_done = SumCounts(acc.all_stats, "completed", 1)
            /\ \A k \in KnownStatuses : total[k] = SumRows(shown.rows, k, max, 1)
            /\ SumValues(total, KnownStatuses) = acc.total_tasks

(* C3: in every published snapshot recently_completed is the last          *)
(* min(8, k) entries of the (project name, title) pairs of the completed   *)
(* tasks in encounter order, k being their number: never more than 8, in   *)
(* unchanged order.                                                        *)
C3_RecentIsLastEight ==
    Published =>
        LET all == CompletedFrom(taskFiles, Projects(registry), 1)
            k   == Len(all)
            m   == IF k < 8 THEN k ELSE 8
            got == shown.rc_panel.lines
        IN  /\ Len(got) = m
            /\ \A j \in 1..m : got[j] = all[k - m + j]

C3_Witness ==
    /\ Published
    /\ Len(CompletedFrom(taskFiles, Projects(registry), 1)) > 8
    /\ Len(shown.rc_panel.lines) = 8
    /\ shown.ip_panel.lines # << >>

C7_TasksUnderRegistryRoot ==
    registry.isdict =>
        \A i \in 1..Len(reads) :
            reads[i].file[1] = Get(registry.doc, "projects_root", PROJECTS_ROOT)

(* C8: make_progress_bar(done, total, width) with 0 <= done <= total and   *)
(* width >= 0 is the indeterminate placeholder when total = 0; otherwise   *)
(* filled = floor(done * width / total): filled = width when done = total, *)
(* filled = 0 when done = 0, filled does not decrease as done grows, and   *)
(* the bar is filled full cells followed by width - filled empty ones.     *)
C8_FilledIsExactFloor ==
    pc = "bar_done" =>
        LET done  == barArgs[1]
            total == barArgs[2]
            width == barArgs[3]
        IN  IF total = 0 THEN bar.placeholder /\ bar.track = width
            ELSE /\ ~bar.placeholder
                 /\ bar.full = (done * width) \div total
                 /\ bar.empty = width - bar.full
                 /\ 0 <= bar.full /\ bar.full <= width
                 /\ done = total => bar.full = width
                 /\ done = 0 => bar.full = 0
                 /\ done > 0 => Filled(done - 1, total, width) <= bar.full

-----------------------------------------------------------------------------
(* The claims about main.                                                  *)

Printed(what) == \E i \in 1..Len(console) : console[i] = what

\* The registry file holds a document with a non-empty project list.
HasProjects(content) ==
    /\ content.kind = "json"
    /\ content.isdict
    /\ "projects" \in DOMAIN content.doc
    /\ Len(content.doc.projects) > 0

\* The task files as the load_tasks calls of the running cycle found them.
FilesAsRead ==
    [f \in Roots \X Paths |->
        IF \E i \in 1..Len(reads) : reads[i].file = f
        THEN reads[CHOOSE i \in 1..Len(reads) : reads[i].file = f].content
        ELSE FileAbsent]

C6_LiveAlwaysReleased ==
    /\ pc \in Terminated => ~liveHeld
    /\ liveHeld <=> (Printed("live_start") /\ ~Printed("live_stop"))
    /\ liveHeld => pc \in {"sleep", "reload", "gather", "unwind_interrupt", "unwind_error"}
    /\ pc = "except" =>
          /\ ~liveHeld
          /\ console \in {<<"starting">>, <<"starting", "live_start", "live_stop">>}
    /\ (pc = "exited" /\ Printed("stopped")) =>
          console \in {<<"starting", "stopped">>,
                       <<"starting", "live_start", "live_stop", "stopped">>}

C6_Witness ==
    /\ pc = "exited"
    /\ console = <<"starting", "live_start", "live_stop", "stopped">>
    /\ Len(Projects(registry)) = 2
    /\ idx = 2

(* C9: every refresh cycle re-reads the registry and every task file and   *)
(* reuses nothing read earlier: the snapshot a cycle publishes is built    *)
(* from the registry loaded in that cycle and the task lists read in it,   *)
(* load_tasks being called once per project of that registry, so with the  *)
(* files unchanged since the cycle began the snapshot is the one the       *)
(* files as they are give.                                                 *)
C9_FreshEveryCycle ==
    Published =>
        /\ Len(reads) = Len(Projects(registry))
        /\ \A i \in 1..Len(reads) : reads[i].file[2] = Projects(registry)[i].path
        /\ BuildDisplay(FilesAsRead, registry) = Returned(shown)
        /\ ~cycleEdited =>
              /\ load_registry_from(registryFile) = Returned(registry)
              /\ build_display(registry) = Returned(shown)

C9_Witness ==
    /\ Published
    /\ ~cycleEdited
    /\ startContent # registryFile
    /\ Len(Projects(registry)) = 2
    /\ startContent = RegistryDoc(PROJECTS_ROOT, <<ProjAlpha>>)
    /\ shown.rows[1].name = "beta"
    /\ shown.rows[2].completed = "1"

(* C10: there is no fatal error: whatever the registry file and the task   *)
(* files hold (absent, unparsable, or parsable but of an unexpected        *)
(* shape), every refresh cycle that is not interrupted publishes a         *)
(* snapshot and the running loop is left only through the user interrupt.  *)
C10_LoopLeftOnlyByInterrupt == pc # "unwind_error"

=============================================================================
